---- MODULE Spec2Model ----
(***************************************************************************)
(* Model of whisp/src/tidy_tables.py: the indicator deriver                *)
(* (add_indicator_column, add_indicators), the risk classifier             *)
(* (whisp_risk, add_eudr_risk_col) and the column orderer                  *)
(* (reorder_columns_by_lookup); and of modules/file_to_ceo.py: the         *)
(* project-creation workflow (get_ceo_url, build_and_send_project_data).   *)
(*                                                                         *)
(* A table (pandas DataFrame) is a record                                  *)
(*   [cols |-> sequence of column names, in column order,                  *)
(*    data |-> function from column name to the sequence of its cells,     *)
(*    n    |-> number of rows]                                             *)
(* with a unique default index 1..n.  Tables are mutated in place by the   *)
(* code, so the caller's table is the variable df itself.                  *)
(*                                                                         *)
(* Numbers compared with a threshold are extended rationals [n, d], d >= 0 *)
(* standing for n/d; d = 0 stands for +inf (n > 0), -inf (n < 0) and       *)
(* NaN (n = 0), which is what pandas division by a zero area produces.     *)
(***************************************************************************)
EXTENDS Integers, Sequences, FiniteSets, TLC

VARIABLES
    df,             \* the caller's table, mutated in place
    df0,            \* the table as it was when the call was made
    percent_or_ha,  \* config_runtime.percent_or_ha
    pc,             \* position of the running call
    exc,            \* exception that ended the call, or "none"
    wr,             \* arguments of the running whisp_risk call
    call,           \* arguments of the running add_indicator_column call
    eudr,           \* arguments of the running add_eudr_risk_col call
    i,              \* add_indicators: position in zip(input_cols, thresholds, names)
    j,              \* add_indicator_column: position in input_columns
    r,              \* add_eudr_risk_col: position in df.iterrows()
    trace,          \* add_indicator_column calls made so far, in order
    lookup,         \* lookup_gee_datasets_df, a sequence of rows
    prefix,         \* prefix_columns_list
    res,            \* the table returned by reorder_columns_by_lookup
    file_path,      \* build_and_send_project_data: its argument
    plot_file_base64, \* build_and_send_project_data: the encoded file
    cookie,         \* build_and_send_project_data: what login returned
    response,       \* build_and_send_project_data: what the creation request returned
    project_id,     \* build_and_send_project_data: the local project_id
    steps,          \* the workflow steps attempted so far, in order
    ret,            \* what build_and_send_project_data returned
    url             \* what get_ceo_url returned

\* the variables of modules/file_to_ceo.py
ceoVars == <<file_path, plot_file_base64, cookie, response, project_id, steps,
             ret, url>>

vars == <<df, df0, percent_or_ha, pc, exc, wr, call, eudr, i, j, r, trace,
          lookup, prefix, res, ceoVars>>

(***************************************************************************)
(* Bounds                                                                  *)
(***************************************************************************)
MaxRows == 2

MaxLookup == 3

(***************************************************************************)
(* Generic helpers                                                         *)
(***************************************************************************)
Range(s) == {s[k] : k \in DOMAIN s}

Min(a, b) == IF a <= b THEN a ELSE b

NoCall == [fn |-> "none"]

NaN == "NaN"

EmptyTable == [cols |-> <<>>, data |-> <<>>, n |-> 0]

\* Python values of the project-creation workflow: a local that is not
\* bound yet, None, a string, an integer
Unset == [t |-> "unbound"]

PyNone == [t |-> "None"]

PyStr(v) == [t |-> "str", v |-> v]

PyInt(v) == [t |-> "int", v |-> v]

(***************************************************************************)
(* Table primitives (pandas)                                               *)
(***************************************************************************)
HasColumn(d, name) == name \in Range(d.cols)

\* df[name] = vals : overwrite in place, or append a new last column
SetColumn(d, name, vals) ==
    [cols |-> IF HasColumn(d, name) THEN d.cols ELSE Append(d.cols, name),
     data |-> [c \in Range(d.cols) \cup {name} |->
                  IF c = name THEN vals ELSE d.data[c]],
     n    |-> d.n]

\* df.at[row, name] = v : enlarges the table with a missing-valued column
\* when name is not yet a column
SetCell(d, row, name, v) ==
    LET old == IF HasColumn(d, name) THEN d.data[name]
               ELSE [k \in 1..d.n |-> NaN]
    IN  SetColumn(d, name, [old EXCEPT ![row] = v])

(***************************************************************************)
(* Extended rationals                                                      *)
(***************************************************************************)
Num(v) == [n |-> v, d |-> 1]

IsNaN(x) == x.d = 0 /\ x.n = 0

\* v / a as pandas computes it for a non-negative area a (a = 0 gives
\* inf, -inf or NaN, never an exception)
Divide(v, a) == [n |-> v, d |-> a]

Times(x, k) == [n |-> x.n * k, d |-> x.d]

\* x > t for an integer t; every comparison with NaN is false
Gt(x, t) ==
    IF x.d = 0 THEN x.n > 0 ELSE x.n > t * x.d

Lt(x, t) ==
    IF x.d = 0 THEN x.n < 0 ELSE x.n < t * x.d

\* Series.clip(lower, upper): NaN stays NaN
clamp(value, min_val, max_val) ==
    IF IsNaN(value) THEN value
    ELSE IF Lt(value, min_val) THEN Num(min_val)
    ELSE IF Gt(value, max_val) THEN Num(max_val)
    ELSE value

(***************************************************************************)
(* Configuration (parameters/config_runtime.py)                            *)
(***************************************************************************)
geometry_area_column == "area"

cols_ind_1_treecover == <<"a">>

cols_ind_2_commodities == <<"b">>

cols_ind_3_dist_before_2020 == <<"a", "b">>

cols_ind_4_dist_after_2020 == <<"b">>

UnitModes == {"percent", "ha"}

(***************************************************************************)
(* add_indicator_column                                                    *)
(***************************************************************************)
\* defaults of the low_name / high_name parameters
DefaultLowName == "yes"

DefaultHighName == "no"

\* the value compared with the threshold for one column and one row
ValToCheck(d, col, row, mode) ==
    IF mode = "ha"
    THEN clamp(Times(Divide(d.data[col][row],
                            d.data[geometry_area_column][row]), 100), 0, 100)
    ELSE Num(d.data[col][row])

RECURSIVE SumRow(_, _, _)
\* df[input_columns].sum(axis=1) for one row
SumRow(d, colseq, row) ==
    IF colseq = <<>> THEN 0
    ELSE d.data[Head(colseq)][row] + SumRow(d, Tail(colseq), row)

\* a sum that is converted like a single column in ha mode
SumValuesMutant(d, colseq, row, mode) ==
    IF mode = "ha"
    THEN clamp(Times(Divide(SumRow(d, colseq, row),
                            d.data[geometry_area_column][row]), 100), 0, 100)
    ELSE Num(SumRow(d, colseq, row))

\* lines 199-200: the sum is compared as it is, whatever the unit mode
SumValues(d, colseq, row, mode) == Num(SumRow(d, colseq, row))

\* a column created without its initial label
InitColumnMutant(d, name, low) == SetColumn(d, name, [k \in 1..d.n |-> NaN])

\* df[new_column_name] = low_name
InitColumn(d, name, low) == SetColumn(d, name, [k \in 1..d.n |-> low])

\* an assignment of both labels, which resets rows outside the mask
LocSetMutant(d, name, mask, low, high) ==
    SetColumn(d, name, [k \in 1..d.n |-> IF mask[k] THEN high ELSE low])

\* df.loc[mask, new_column_name] = high_name
LocSet(d, name, mask, low, high) ==
    SetColumn(d, name, [k \in 1..d.n |-> IF mask[k] THEN high ELSE d.data[name][k]])

MissingColumns(d, colseq) == {c \in Range(colseq) : ~HasColumn(d, c)}

\* add_indicator_column is entered: line 192 initialises the new column
Enter(args) ==
    /\ call' = args
    /\ trace' = Append(trace, args)
    /\ df' = InitColumn(df, args.new_column_name, args.low_name)
    /\ j' = 1
    /\ pc' = IF args.sum_comparison THEN "sum" ELSE "cols"

\* the parameters of one call; defaulted is TRUE when the caller left
\* low_name and high_name to their defaults
IndicatorArgs(cols, t, name, low, high, sum, defaulted) ==
    [fn |-> "add_indicator_column", input_columns |-> cols, threshold |-> t,
     new_column_name |-> name, low_name |-> low, high_name |-> high,
     sum_comparison |-> sum, defaulted |-> defaulted]

\* lines 197-200: the row-wise sum of input_columns against the threshold
AddIndicatorColumn_Sum ==
    /\ pc = "sum"
    /\ IF MissingColumns(df, call.input_columns) # {}
       THEN /\ pc' = "raised"
            /\ exc' = "KeyError"
            /\ UNCHANGED <<df, j>>
       ELSE /\ df' = LocSet(df, call.new_column_name,
                       [k \in 1..df.n |->
                           Gt(SumValues(df, call.input_columns, k, percent_or_ha),
                              call.threshold)],
                       call.low_name, call.high_name)
            /\ j' = Len(call.input_columns) + 1
            /\ pc' = "cols"
            /\ UNCHANGED exc
    /\ UNCHANGED <<df0, percent_or_ha, wr, call, eudr, i, r, trace, lookup, prefix, res,
                   ceoVars>>

\* lines 203-214: one iteration of "for col in input_columns"
AddIndicatorColumn_Col ==
    /\ pc = "cols"
    /\ j <= Len(call.input_columns)
    /\ LET col == call.input_columns[j]
           needed == IF percent_or_ha = "ha" THEN <<col, geometry_area_column>>
                     ELSE <<col>>
       IN  IF MissingColumns(df, needed) # {}
           THEN /\ pc' = "raised"
                /\ exc' = "KeyError"
                /\ UNCHANGED <<df, j>>
           ELSE /\ df' = LocSet(df, call.new_column_name,
                           [k \in 1..df.n |->
                               Gt(ValToCheck(df, col, k, percent_or_ha),
                                  call.threshold)],
                           call.low_name, call.high_name)
                /\ j' = j + 1
                /\ UNCHANGED <<pc, exc>>
    /\ UNCHANGED <<df0, percent_or_ha, wr, call, eudr, i, r, trace, lookup, prefix, res,
                   ceoVars>>

\* line 215: return df, to add_indicators (line 153) or to the caller
AddIndicatorColumn_Return ==
    /\ pc = "cols"
    /\ j > Len(call.input_columns)
    /\ IF wr.fn = "whisp_risk"
       THEN pc' = "add_indicators" /\ i' = i + 1
       ELSE pc' = "done" /\ i' = i
    /\ UNCHANGED <<df, df0, percent_or_ha, exc, wr, call, eudr, j, r, trace,
                   lookup, prefix, res,
                   ceoVars>>

(***************************************************************************)
(* Inputs of the specifications                                            *)
(***************************************************************************)
\* thresholds handed to whisp_risk: all four valid, or one of them replaced
\* by a value outside [0, 100]
ValidThresholds == {0, 100}

InvalidThresholds == {-5, 150}

ThresholdTuples ==
    [1..4 -> ValidThresholds] \cup
    {[t EXCEPT ![m] = v] : t \in [1..4 -> ValidThresholds], m \in 1..4,
                           v \in InvalidThresholds}

LabelPairs == {<<"no", "yes">>, <<"low", "high">>}

\* paths handed to get_ceo_url
FilePaths ==
    [stem : {"plots", "farms"}, suffix : {".shp", ".zip", ".csv", ""},
     readable : BOOLEAN]

\* answers of the server to the login request: a failed request, an answer
\* without Set-Cookie header, an answer with one
LoginAnswers ==
    {[ok |-> FALSE, set_cookie |-> <<>>], [ok |-> TRUE, set_cookie |-> <<>>]} \cup
    {[ok |-> TRUE, set_cookie |-> <<c, "Path=/">>] :
        c \in {"ring-session=s1", "ring-session=s2"}}

\* answers of the server to the creation request: a failed request, a JSON
\* object without projectId, a JSON object with one
CreateAnswers ==
    {[ok |-> FALSE, json |-> PyNone],
     [ok |-> TRUE, json |-> [message |-> "created"]]} \cup
    {[ok |-> TRUE, json |-> [projectId |-> p]] : p \in {101, 102}}

(***************************************************************************)
(* whisp_risk, add_indicators, add_eudr_risk_col                           *)
(***************************************************************************)
ind_1_name == "Indicator_1_treecover"

ind_2_name == "Indicator_2_commodities"

ind_3_name == "Indicator_3_disturbance_before_2020"

ind_4_name == "Indicator_4_disturbance_after_2020"

\* a range check that forgets the lower end
check_rangeMutant(value) == value <= 100

\* TRUE when check_range(value) returns, FALSE when it raises ValueError
check_range(value) == 0 <= value /\ value <= 100

\* lines 69-81: the three lists whisp_risk hands to add_indicators
WhispRiskArgs(thresholds, low, high) ==
    [fn |-> "whisp_risk",
     input_cols |-> <<cols_ind_1_treecover, cols_ind_2_commodities,
                      cols_ind_3_dist_before_2020, cols_ind_4_dist_after_2020>>,
     thresholds |-> thresholds,
     names |-> <<ind_1_name, ind_2_name, ind_3_name>>,
     low_name |-> low,
     high_name |-> high]

\* zip(input_cols, thresholds, names) stops with its shortest argument
ZipLen(w) == Min(Len(w.input_cols), Min(Len(w.thresholds), Len(w.names)))

EudrArgs == [fn |-> "add_eudr_risk_col",
             names |-> <<ind_1_name, ind_2_name, ind_3_name, ind_4_name>>]

\* a classifier whose second test is inverted
RowOutcomeMutant(d, k, e) ==
    IF ~HasColumn(d, e.names[1]) THEN "KeyError"
    ELSE IF d.data[e.names[1]][k] = "no" THEN "low"
    ELSE IF ~HasColumn(d, e.names[2]) THEN "KeyError"
    ELSE IF d.data[e.names[2]][k] = "yes" THEN "low"
    ELSE IF ~HasColumn(d, e.names[3]) THEN "KeyError"
    ELSE IF d.data[e.names[3]][k] = "yes" THEN "low"
    ELSE IF ~HasColumn(d, e.names[4]) THEN "KeyError"
    ELSE IF d.data[e.names[4]][k] = "yes" THEN "more_info_needed"
    ELSE "high"

\* lines 127-138 for one row: the label, or "KeyError" when the row is
\* asked for a column it does not have (the "or" chain and the elif read a
\* column only when every earlier test was false)
RowOutcome(d, k, e) ==
    IF ~HasColumn(d, e.names[1]) THEN "KeyError"
    ELSE IF d.data[e.names[1]][k] = "no" THEN "low"
    ELSE IF ~HasColumn(d, e.names[2]) THEN "KeyError"
    ELSE IF d.data[e.names[2]][k] = "yes" THEN "low"
    ELSE IF ~HasColumn(d, e.names[3]) THEN "KeyError"
    ELSE IF d.data[e.names[3]][k] = "yes" THEN "low"
    ELSE IF ~HasColumn(d, e.names[4]) THEN "KeyError"
    ELSE IF d.data[e.names[4]][k] = "no" THEN "more_info_needed"
    ELSE "high"

\* whisp_risk(df, t1, t2, t3, t4, low_name=..., high_name=...) up to line 82
WhispRisk_Call ==
    /\ pc = "idle"
    /\ \E thresholds \in ThresholdTuples, names \in LabelPairs :
          /\ wr' = WhispRiskArgs(thresholds, names[1], names[2])
          /\ IF \E m \in 1..Len(thresholds) : ~check_range(thresholds[m])
             THEN pc' = "raised" /\ exc' = "ValueError" /\ i' = i
             ELSE pc' = "add_indicators" /\ exc' = exc /\ i' = 1
    /\ UNCHANGED <<df, df0, percent_or_ha, call, eudr, j, r, trace, lookup,
                   prefix, res,
                   ceoVars>>

\* lines 152-160: one iteration of the zip loop calls add_indicator_column
AddIndicators_Step ==
    /\ pc = "add_indicators"
    /\ i <= ZipLen(wr)
    /\ Enter(IndicatorArgs(wr.input_cols[i], wr.thresholds[i], wr.names[i],
                           wr.low_name, wr.high_name, FALSE, FALSE))
    /\ UNCHANGED <<df0, percent_or_ha, exc, wr, eudr, i, r, lookup, prefix, res,
                   ceoVars>>

\* line 162 and lines 93-99: add_indicators returns, add_eudr_risk_col is
\* called with the four indicator names
AddIndicators_Return ==
    /\ pc = "add_indicators"
    /\ i > ZipLen(wr)
    /\ eudr' = EudrArgs
    /\ r' = 1
    /\ pc' = "risk"
    /\ UNCHANGED <<df, df0, percent_or_ha, exc, wr, call, i, j, trace, lookup,
                   prefix, res,
                   ceoVars>>

\* lines 125-138: one iteration of "for index, row in df.iterrows()"
AddEudrRiskCol_Row ==
    /\ pc = "risk"
    /\ r <= df.n
    /\ LET o == RowOutcome(df, r, eudr)
       IN  IF o = "KeyError"
           THEN /\ pc' = "raised"
                /\ exc' = "KeyError"
                /\ UNCHANGED <<df, r>>
           ELSE /\ df' = SetCell(df, r, "EUDR_risk", o)
                /\ r' = r + 1
                /\ UNCHANGED <<pc, exc>>
    /\ UNCHANGED <<df0, percent_or_ha, wr, call, eudr, i, j, trace, lookup,
                   prefix, res,
                   ceoVars>>

\* line 140 (and line 101): return df
AddEudrRiskCol_Return ==
    /\ pc = "risk"
    /\ r > df.n
    /\ pc' = "done"
    /\ UNCHANGED <<df, df0, percent_or_ha, exc, wr, call, eudr, i, j, r, trace,
                   lookup, prefix, res,
                   ceoVars>>

(***************************************************************************)
(* Specification of a direct call of add_indicator_column                  *)
(***************************************************************************)
IndicatorValuesA == {0, 50, 60}

IndicatorValuesB == {0, 30}

IndicatorAreas == {0, 50}

IndicatorThresholds == {50, 100}

IndicatorInputColumns == {<<"a", "b">>, <<"b", "x">>}

MetricTable(n, a, b, area) ==
    [cols |-> <<"a", "b", geometry_area_column>>,
     data |-> [c \in {"a", "b", geometry_area_column} |->
                  IF c = "a" THEN a ELSE IF c = "b" THEN b ELSE area],
     n    |-> n]

IndicatorTables ==
    UNION {{MetricTable(n, a, b, area) :
               a \in [1..n -> IndicatorValuesA],
               b \in [1..n -> IndicatorValuesB],
               area \in [1..n -> IndicatorAreas]} : n \in 1..MaxRows}

InitCommon ==
    /\ df0 = df
    /\ pc = "idle"
    /\ exc = "none"
    /\ wr = NoCall
    /\ call = NoCall
    /\ eudr = NoCall
    /\ i = 0
    /\ j = 0
    /\ r = 0
    /\ trace = <<>>
    /\ file_path = Unset
    /\ plot_file_base64 = Unset
    /\ cookie = Unset
    /\ response = Unset
    /\ project_id = Unset
    /\ steps = <<>>
    /\ ret = Unset
    /\ url = Unset

InitIndicator ==
    /\ df \in IndicatorTables
    /\ percent_or_ha \in UnitModes
    /\ lookup = <<>>
    /\ prefix = <<>>
    /\ res = EmptyTable
    /\ InitCommon

\* add_indicator_column(df, input_columns, threshold, new_column_name
\*                      [, low_name, high_name] [, sum_comparison])
AddIndicatorColumn_Call ==
    /\ pc = "idle"
    /\ \E cols \in IndicatorInputColumns, t \in IndicatorThresholds,
          explicit \in BOOLEAN, sum \in BOOLEAN :
          Enter(IndicatorArgs(cols, t, "ind",
                              IF explicit THEN "low" ELSE DefaultLowName,
                              IF explicit THEN "high" ELSE DefaultHighName,
                              sum, ~explicit))
    /\ UNCHANGED <<df0, percent_or_ha, exc, wr, eudr, i, r, lookup, prefix, res,
                   ceoVars>>

NextIndicator ==
    \/ AddIndicatorColumn_Call
    \/ AddIndicatorColumn_Sum
    \/ AddIndicatorColumn_Col
    \/ AddIndicatorColumn_Return

SpecIndicator == InitIndicator /\ [][NextIndicator]_vars

(***************************************************************************)
(* Specification of a call of whisp_risk                                   *)
(***************************************************************************)
RiskValues == {0, 60}

RiskAreas == {50}

IndicatorLabels == {"no", "yes"}

\* metric tables of n rows, some of which already hold a column named
\* ind_4_name
RiskTables(n) ==
    {MetricTable(n, a, b, area) :
        a \in [1..n -> RiskValues],
        b \in [1..n -> RiskValues],
        area \in [1..n -> RiskAreas]}

RiskInputTables ==
    UNION {RiskTables(n) \cup
           {SetColumn(d, ind_4_name, v) :
               d \in RiskTables(n), v \in [1..n -> IndicatorLabels]} :
           n \in 1..MaxRows}

Init ==
    /\ df \in RiskInputTables
    /\ percent_or_ha \in UnitModes
    /\ lookup = <<>>
    /\ prefix = <<>>
    /\ res = EmptyTable
    /\ InitCommon

Next ==
    \/ WhispRisk_Call
    \/ AddIndicators_Step
    \/ AddIndicatorColumn_Col
    \/ AddIndicatorColumn_Return
    \/ AddIndicators_Return
    \/ AddEudrRiskCol_Row
    \/ AddEudrRiskCol_Return

Spec == Init /\ [][Next]_vars

(***************************************************************************)
(* Specification of a direct call of add_eudr_risk_col                     *)
(***************************************************************************)
RowsTable(n) == [cols |-> <<"id">>, data |-> [c \in {"id"} |-> [k \in 1..n |-> k]], n |-> n]

RECURSIVE WithIndicators(_, _, _)
\* the tables obtained by adding, or not, each column of names in turn
WithIndicators(tables, names, n) ==
    IF names = <<>> THEN tables
    ELSE WithIndicators(
            tables \cup {SetColumn(d, Head(names), v) :
                            d \in tables, v \in [1..n -> IndicatorLabels]},
            Tail(names), n)

EudrTables ==
    UNION {WithIndicators({RowsTable(n)}, EudrArgs.names, n) : n \in 1..MaxRows}

InitEudr ==
    /\ df \in EudrTables
    /\ percent_or_ha = "percent"
    /\ lookup = <<>>
    /\ prefix = <<>>
    /\ res = EmptyTable
    /\ InitCommon

\* add_eudr_risk_col(df, ind_1_name, ind_2_name, ind_3_name, ind_4_name)
AddEudrRiskCol_Call ==
    /\ pc = "idle"
    /\ eudr' = EudrArgs
    /\ r' = 1
    /\ pc' = "risk"
    /\ UNCHANGED <<df, df0, percent_or_ha, exc, wr, call, i, j, trace, lookup,
                   prefix, res,
                   ceoVars>>

NextEudr ==
    \/ AddEudrRiskCol_Call
    \/ AddEudrRiskCol_Row
    \/ AddEudrRiskCol_Return

SpecEudr == InitEudr /\ [][NextEudr]_vars

(***************************************************************************)
(* reorder_columns_by_lookup                                               *)
(***************************************************************************)
\* lookup_gee_datasets_df.sort_values(by=["dataset_order"]): the orders of
\* the rows that a sort by dataset_order can produce.  The default sort
\* kind is quicksort, which fixes no order among rows with equal
\* dataset_order, so each such arrangement is a possible outcome.
SortValues(lk) ==
    {p \in Permutations(1..Len(lk)) :
        \A k \in 1..(Len(lk) - 1) :
            lk[p[k]].dataset_order <= lk[p[k + 1]].dataset_order}

\* lines 310-313, for the row order p chosen by the sort
order_list_from_lookup(lk, p) == [k \in 1..Len(lk) |-> lk[p[k]].dataset_name]

\* lines 316-329; the list computed at lines 320-322 is overwritten at 325
create_column_list_from_lookup(lk, prefix_columns_list, p) ==
    prefix_columns_list \o order_list_from_lookup(lk, p)

\* a reordering that keeps the columns the list does not name
ReindexMutant(d, target) ==
    LET all == Range(target) \cup Range(d.cols)
    IN  [cols |-> target \o SelectSeq(d.cols, LAMBDA c : c \notin Range(target)),
         data |-> [c \in all |-> IF HasColumn(d, c) THEN d.data[c]
                                 ELSE [k \in 1..d.n |-> NaN]],
         n    |-> d.n]

\* df.reindex(columns=target): a new table with exactly the columns of
\* target, those the table lacks filled with missing values
Reindex(d, target) ==
    [cols |-> target,
     data |-> [c \in Range(target) |-> IF HasColumn(d, c) THEN d.data[c]
                                       ELSE [k \in 1..d.n |-> NaN]],
     n    |-> d.n]

\* lines 340-352
ReorderColumnsByLookup ==
    /\ pc = "idle"
    /\ \E p \in SortValues(lookup) :
          res' = Reindex(df, create_column_list_from_lookup(lookup, prefix, p))
    /\ pc' = "done"
    /\ UNCHANGED <<df, df0, percent_or_ha, exc, wr, call, eudr, i, j, r, trace,
                   lookup, prefix,
                   ceoVars>>

(***************************************************************************)
(* Specification of a call of reorder_columns_by_lookup                    *)
(***************************************************************************)
LookupNames == {"a", "b", "c", "d"}

LookupOrders == {1, 2}

ReorderColumns == <<"id", "a", "b", "x">>

Prefixes == {<<>>, <<"id">>, <<"id", "area">>}

\* lookup tables of up to MaxLookup rows with distinct dataset names
Lookups ==
    UNION {{lk \in [1..n -> [dataset_name : LookupNames, dataset_order : LookupOrders]] :
               \A k1, k2 \in 1..n : k1 # k2 => lk[k1].dataset_name # lk[k2].dataset_name} :
           n \in 0..MaxLookup}

\* tables of n rows holding some of ReorderColumns, in that order; a cell
\* holds the name of its column
ReorderTables ==
    {[cols |-> SelectSeq(ReorderColumns, LAMBDA c : c \in present),
      data |-> [c \in present |-> [k \in 1..n |-> c]],
      n    |-> n] : present \in SUBSET Range(ReorderColumns), n \in 1..MaxRows}

InitReorder ==
    /\ df \in ReorderTables
    /\ percent_or_ha = "percent"
    /\ lookup \in Lookups
    /\ prefix \in Prefixes
    /\ res = EmptyTable
    /\ InitCommon

NextReorder == ReorderColumnsByLookup

SpecReorder == InitReorder /\ [][NextReorder]_vars

(***************************************************************************)
(* modules/file_to_ceo.py: get_ceo_url, build_and_send_project_data        *)
(***************************************************************************)
Raise(e) == [t |-> "raise", exc |-> e]

\* file_path.endswith(suffix); a path is [stem, suffix, readable]
EndsWith(fp, suffix) == fp.suffix = suffix

\* lines 14-30: ValueError for another suffix, the error of open() for a
\* file that cannot be read, else the prefixed base64 text of the content
file_to_base64(fp) ==
    IF ~(EndsWith(fp, ".shp") \/ EndsWith(fp, ".zip")) THEN Raise("ValueError")
    ELSE IF ~fp.readable THEN Raise("FileNotFoundError")
    ELSE PyStr(<<"data:application/zip;base64,", fp.stem>>)

\* lines 32-48 for one answer of the server: None for a failed request,
\* AttributeError (not a RequestException, so not caught) when the answer
\* has no Set-Cookie header, else the first ';'-separated part of it
login(answer) ==
    IF ~answer.ok THEN PyNone
    ELSE IF answer.set_cookie = <<>> THEN Raise("AttributeError")
    ELSE PyStr(Head(answer.set_cookie))

\* lines 50-71 for one answer of the server: None for a failed request,
\* else the decoded JSON object
send_project_creation_request(answer) ==
    IF ~answer.ok THEN PyNone ELSE answer.json

\* a login check that lets a missing cookie through
LoginFailedMutant(c) == FALSE

\* line 83: if cookie is None
LoginFailed(c) == c = PyNone

\* str(project_id) at line 199
Str(v) == IF v = PyNone THEN "None" ELSE ToString(v.v)

\* lines 196-197 and 73: get_ceo_url calls build_and_send_project_data
GetCeoUrl_Call ==
    /\ pc = "idle"
    /\ file_path' \in FilePaths
    /\ pc' = "encode"
    /\ UNCHANGED <<df, df0, percent_or_ha, exc, wr, call, eudr, i, j, r, trace,
                   lookup, prefix, res, plot_file_base64, cookie, response,
                   project_id, steps, ret, url>>

\* lines 75-79: the file is encoded; any exception means return None
Build_Encode ==
    /\ pc = "encode"
    /\ LET b == file_to_base64(file_path)
       IN  /\ steps' = Append(steps, [step |-> "encode", ok |-> b.t # "raise",
                                      args |-> <<file_path>>])
           /\ IF b.t = "raise"
              THEN ret' = PyNone /\ pc' = "returned" /\ UNCHANGED plot_file_base64
              ELSE plot_file_base64' = b /\ pc' = "login" /\ UNCHANGED ret
    /\ UNCHANGED <<df, df0, percent_or_ha, exc, wr, call, eudr, i, j, r, trace,
                   lookup, prefix, res, file_path, cookie, response, project_id,
                   url>>

\* lines 82-85: login; no cookie means return None
Build_Login ==
    /\ pc = "login"
    /\ \E answer \in LoginAnswers :
          LET c == login(answer)
          IN  /\ steps' = Append(steps, [step |-> "login", ok |-> c.t = "str",
                                         args |-> <<"https://app.collect.earth/login">>])
              /\ IF c.t = "raise"
                 THEN /\ pc' = "raised"
                      /\ exc' = c.exc
                      /\ UNCHANGED <<cookie, ret>>
                 ELSE /\ cookie' = c
                      /\ exc' = exc
                      /\ IF LoginFailed(c)
                         THEN ret' = PyNone /\ pc' = "returned"
                         ELSE ret' = ret /\ pc' = "create"
    /\ UNCHANGED <<df, df0, percent_or_ha, wr, call, eudr, i, j, r, trace,
                   lookup, prefix, res, file_path, plot_file_base64, response,
                   project_id, url>>

\* lines 169-179: the creation request and the test of its answer
Build_Create ==
    /\ pc = "create"
    /\ \E answer \in CreateAnswers :
          LET resp == send_project_creation_request(answer)
          IN  /\ steps' = Append(steps,
                     [step |-> "create",
                      ok |-> resp # PyNone /\ "projectId" \in DOMAIN resp,
                      args |-> <<plot_file_base64, cookie>>])
              /\ response' = resp
              /\ IF resp # PyNone
                 THEN IF "projectId" \in DOMAIN resp
                      THEN /\ project_id' = PyInt(resp.projectId)
                           /\ pc' = "publish"
                           /\ exc' = exc
                      ELSE /\ pc' = "raised"
                           /\ exc' = "ValueError"
                           /\ UNCHANGED project_id
                 ELSE /\ pc' = "return"
                      /\ UNCHANGED <<project_id, exc>>
    /\ UNCHANGED <<df, df0, percent_or_ha, wr, call, eudr, i, j, r, trace,
                   lookup, prefix, res, file_path, plot_file_base64, cookie,
                   ret, url>>

\* lines 174-175 and 184-194: publish_project returns None whether its
\* request succeeded or not
Build_Publish ==
    /\ pc = "publish"
    /\ \E ok \in BOOLEAN :
          steps' = Append(steps, [step |-> "publish", ok |-> ok,
                                  args |-> <<project_id, cookie>>])
    /\ pc' = "return"
    /\ UNCHANGED <<df, df0, percent_or_ha, exc, wr, call, eudr, i, j, r, trace,
                   lookup, prefix, res, file_path, plot_file_base64, cookie,
                   response, project_id, ret, url>>

\* line 181: return project_id, a local that is bound only at line 173
Build_Return ==
    /\ pc = "return"
    /\ IF project_id = Unset
       THEN pc' = "raised" /\ exc' = "UnboundLocalError" /\ ret' = ret
       ELSE pc' = "returned" /\ exc' = exc /\ ret' = project_id
    /\ UNCHANGED <<df, df0, percent_or_ha, wr, call, eudr, i, j, r, trace,
                   lookup, prefix, res, file_path, plot_file_base64, cookie,
                   response, project_id, steps, url>>

\* lines 199-200
GetCeoUrl_Return ==
    /\ pc = "returned"
    /\ url' = PyStr(<<"https://app.collect.earth/collection?projectId=", Str(ret)>>)
    /\ pc' = "done"
    /\ UNCHANGED <<df, df0, percent_or_ha, exc, wr, call, eudr, i, j, r, trace,
                   lookup, prefix, res, file_path, plot_file_base64, cookie,
                   response, project_id, steps, ret>>

(***************************************************************************)
(* Specification of a call of get_ceo_url                                  *)
(***************************************************************************)
InitCeo ==
    /\ df = EmptyTable
    /\ percent_or_ha = "percent"
    /\ lookup = <<>>
    /\ prefix = <<>>
    /\ res = EmptyTable
    /\ InitCommon

NextCeo ==
    \/ GetCeoUrl_Call
    \/ Build_Encode
    \/ Build_Login
    \/ Build_Create
    \/ Build_Publish
    \/ Build_Return
    \/ GetCeoUrl_Return

SpecCeo == InitCeo /\ [][NextCeo]_vars

(***************************************************************************)
(* Properties of add_indicator_column                                      *)
(***************************************************************************)
Running == call # NoCall /\ pc \in {"sum", "cols", "done", "raised"}

Label(k) == df.data[call.new_column_name][k]

\* "value strictly exceeds the threshold", stated on the integers of the
\* input table: percent mode compares the raw value; ha mode compares
\* value / area * 100 clamped to [0, 100] (a zero area gives +inf, clamped
\* to 100, for a positive value and NaN, never above, for a zero value)
Exceeds(v, a, t, mode) ==
    IF mode = "percent" THEN v > t
    ELSE IF a = 0 THEN v > 0 /\ 100 > t
    ELSE IF v > a THEN 100 > t
    ELSE IF v < 0 THEN 0 > t
    ELSE 100 * v > t * a

ColumnExceeds(col, k) ==
    Exceeds(df0.data[col][k], df0.data[geometry_area_column][k],
            call.threshold, percent_or_ha)

\* C5: from the moment add_indicator_column has created new_column_name,
\* at every step of the per-column iteration and after it returns, every
\* row of that column holds low_name or high_name and nothing else.
C5_OnlyTwoLabels ==
    Running =>
        /\ HasColumn(df, call.new_column_name)
        /\ \A k \in 1..df.n : Label(k) \in {call.low_name, call.high_name}

C5_Witness ==
    /\ pc = "done"
    /\ df.n = 2
    /\ Label(1) = call.low_name
    /\ Label(2) = call.high_name

C6_State ==
    (Running /\ pc \in {"cols", "done"} /\ ~call.sum_comparison) =>
        \A k \in 1..df.n :
            Label(k) = call.high_name <=>
                \E m \in 1..Min(j - 1, Len(call.input_columns)) :
                    ColumnExceeds(call.input_columns[m], k)

C6_Step ==
    (pc = "cols" /\ pc' \in {"cols", "done"}) =>
        \A k \in 1..df.n :
            Label(k) = call.high_name =>
                df'.data[call.new_column_name][k] = call.high_name

\* C6: with sum_comparison false a row is high_name exactly when one of
\* the columns processed so far strictly exceeds the threshold (all of
\* input_columns once the call has returned), a value equal to the
\* threshold not counting, and no step of the iteration turns a high_name
\* row back to low_name.
C6_AnyColumnExceeds == [](C6_State) /\ [][C6_Step]_vars

\* a returned call where row 1 is high because of the first column only
\* (the second column, processed later, is below the threshold) and row 2
\* is low with a first column equal to the threshold
C6_Witness ==
    /\ pc = "done"
    /\ ~call.sum_comparison
    /\ df.n = 2
    /\ call.input_columns = <<"a", "b">>
    /\ ColumnExceeds("a", 1) /\ ~ColumnExceeds("b", 1)
    /\ Label(1) = call.high_name
    /\ percent_or_ha = "percent" /\ df0.data["a"][2] = call.threshold
    /\ Label(2) = call.low_name

\* C7: with sum_comparison true a row is high_name exactly when the sum of
\* the raw values of all input_columns is strictly greater than the
\* threshold, in either unit mode (no conversion, no clamping, no
\* column-by-column comparison).
C7_SumComparison ==
    (pc = "done" /\ call # NoCall /\ call.sum_comparison) =>
        \A k \in 1..df.n :
            Label(k) = call.high_name <=>
                SumRow(df0, call.input_columns, k) > call.threshold

\* ha mode, row 1 low although one of its columns is above the threshold
\* once converted to percent; row 2 high although no column is above the
\* threshold on its own
C7_Witness ==
    /\ pc = "done"
    /\ call.sum_comparison
    /\ percent_or_ha = "ha"
    /\ df.n = 2
    /\ \E c \in Range(call.input_columns) : ColumnExceeds(c, 1)
    /\ Label(1) = call.low_name
    /\ \A c \in Range(call.input_columns) : df0.data[c][2] <= call.threshold
    /\ Label(2) = call.high_name

\* C9: a call that leaves low_name and high_name to their defaults labels
\* a row "no" when no value is above the threshold and "yes" when one is.
C9_DefaultLabels ==
    (pc = "done" /\ call # NoCall /\ call.defaulted /\ ~call.sum_comparison) =>
        \A k \in 1..df.n :
            Label(k) = IF \E c \in Range(call.input_columns) : ColumnExceeds(c, k)
                       THEN "yes" ELSE "no"

(***************************************************************************)
(* Properties of whisp_risk and add_eudr_risk_col                          *)
(***************************************************************************)
RiskLabels == {"low", "more_info_needed", "high"}

IndicatorNames == <<ind_1_name, ind_2_name, ind_3_name, ind_4_name>>

Returned == wr.fn = "whisp_risk" /\ pc = "done"

ValidCall == wr.fn = "whisp_risk" /\ \A m \in 1..4 : wr.thresholds[m] \in 0..100

Labelled(k) == HasColumn(df, "EUDR_risk") /\ df.data["EUDR_risk"][k] \in RiskLabels

\* C1: when whisp_risk has returned, every row holds one of the three risk
\* labels in EUDR_risk and the table has all four indicator columns.
C1_RiskAfterFourIndicators ==
    Returned =>
        /\ \A k \in 1..df.n : Labelled(k)
        /\ \A m \in 1..4 : HasColumn(df, IndicatorNames[m])

\* C2: add_eudr_risk_col labels every row it has processed whose four
\* indicators are "no" or "yes" by the precedence low / more_info_needed /
\* high.
C2_Precedence ==
    (eudr # NoCall /\ pc \in {"risk", "done", "raised"}) =>
        \A k \in 1..(r - 1) :
            (\A m \in 1..4 :
                /\ HasColumn(df, IndicatorNames[m])
                /\ df.data[IndicatorNames[m]][k] \in {"no", "yes"})
            => /\ HasColumn(df, "EUDR_risk")
               /\ df.data["EUDR_risk"][k] =
                     IF \/ df.data[ind_1_name][k] = "no"
                        \/ df.data[ind_2_name][k] = "yes"
                        \/ df.data[ind_3_name][k] = "yes"
                     THEN "low"
                     ELSE IF df.data[ind_4_name][k] = "no"
                          THEN "more_info_needed"
                          ELSE "high"

Indicators(k) == [m \in 1..4 |-> df.data[IndicatorNames[m]][k]]

\* a returned call on a table with all four indicators where
\* (yes, no, no, no) became more_info_needed and (yes, no, no, yes) high
C2_Witness ==
    /\ pc = "done"
    /\ eudr # NoCall
    /\ df.n = 2
    /\ \A m \in 1..4 : HasColumn(df, IndicatorNames[m])
    /\ Indicators(1) = <<"yes", "no", "no", "no">>
    /\ df.data["EUDR_risk"][1] = "more_info_needed"
    /\ Indicators(2) = <<"yes", "no", "no", "yes">>
    /\ df.data["EUDR_risk"][2] = "high"

\* C3: a whisp_risk call with valid thresholds ends by returning, after
\* four add_indicator_column calls, the m-th with the m-th input columns,
\* threshold and name, and the returned table is the original one followed
\* by the four indicator columns and then EUDR_risk.
C3_FourIndicatorCalls ==
    (ValidCall /\ pc \in {"done", "raised"}) =>
        /\ pc = "done"
        /\ Len(trace) = 4
        /\ \A m \in 1..4 :
              /\ trace[m].input_columns = wr.input_cols[m]
              /\ trace[m].threshold = wr.thresholds[m]
              /\ trace[m].new_column_name = IndicatorNames[m]
        /\ df.cols = df0.cols \o IndicatorNames \o <<"EUDR_risk">>

ThresholdOutOfRange ==
    \E m \in 1..4 : wr.thresholds[m] < 0 \/ wr.thresholds[m] > 100

\* C4: once whisp_risk has been called, a threshold below 0 or above 100
\* means the call has ended with ValueError, no add_indicator_column call
\* was made and the table is what it was before the call; thresholds
\* within 0..100, 0 and 100 included, never end with ValueError.
C4_RangeErrorBeforeMutation ==
    wr.fn = "whisp_risk" =>
        /\ ThresholdOutOfRange =>
              (pc = "raised" /\ exc = "ValueError" /\ df = df0 /\ trace = <<>>)
        /\ ~ThresholdOutOfRange => exc # "ValueError"

\* the call whisp_risk(df, 0, 100, -5, 0) has raised
C4_Witness ==
    /\ wr.fn = "whisp_risk"
    /\ wr.thresholds = <<0, 100, -5, 0>>
    /\ pc = "raised"
    /\ exc = "ValueError"
    /\ df = df0

\* C10: however add_eudr_risk_col ends, by returning or by raising, either
\* every row has its EUDR_risk label or no row has one.
C10_AllOrNothing ==
    (eudr # NoCall /\ pc \in {"done", "raised"}) =>
        \/ \A k \in 1..df.n : Labelled(k)
        \/ \A k \in 1..df.n : ~Labelled(k)

(***************************************************************************)
(* Properties of reorder_columns_by_lookup                                 *)
(***************************************************************************)
\* C8: the returned table's column list is prefix_columns followed by the
\* lookup's dataset names in an order that is ascending in dataset_order;
\* a listed column the input lacks is all missing values, a listed column
\* the input has keeps its cells, an unlisted input column is absent, the
\* number of rows is unchanged (and the input table is left as it was).
C8_CanonicalColumns ==
    (pc = "done" /\ wr = NoCall /\ call = NoCall /\ eudr = NoCall) =>
        /\ Len(res.cols) = Len(prefix) + Len(lookup)
        /\ SubSeq(res.cols, 1, Len(prefix)) = prefix
        /\ \E q \in Permutations(1..Len(lookup)) :
              /\ \A k \in 1..Len(lookup) :
                    res.cols[Len(prefix) + k] = lookup[q[k]].dataset_name
              /\ \A k1, k2 \in 1..Len(lookup) :
                    k1 < k2 => lookup[q[k1]].dataset_order <= lookup[q[k2]].dataset_order
        /\ DOMAIN res.data = Range(res.cols)
        /\ \A c \in Range(res.cols) :
              res.data[c] = IF HasColumn(df0, c) THEN df0.data[c]
                            ELSE [k \in 1..df0.n |-> NaN]
        /\ res.n = df0.n
        /\ df = df0

\* a result with a listed column the input lacks, an input column the list
\* leaves out, and lookup rows that the sort had to swap
C8_Witness ==
    /\ pc = "done"
    /\ wr = NoCall /\ call = NoCall /\ eudr = NoCall
    /\ Len(lookup) >= 2
    /\ lookup[1].dataset_order > lookup[2].dataset_order
    /\ \E c \in Range(res.cols) : ~HasColumn(df0, c)
    /\ \E c \in Range(df0.cols) : c \notin Range(res.cols)
    /\ \E c \in Range(res.cols) : HasColumn(df0, c)
    /\ prefix # <<>>

\* position of a dataset name among the columns that follow the prefix
PositionOf(name) ==
    CHOOSE k \in 1..Len(lookup) : res.cols[Len(prefix) + k] = name

\* C11: in the returned column order, lookup rows with equal dataset_order
\* keep the relative order they have in the lookup table.
C11_StableTieBreak ==
    (pc = "done" /\ wr = NoCall /\ call = NoCall /\ eudr = NoCall) =>
        \A k1, k2 \in 1..Len(lookup) :
            (k1 < k2 /\ lookup[k1].dataset_order = lookup[k2].dataset_order) =>
                PositionOf(lookup[k1].dataset_name) < PositionOf(lookup[k2].dataset_name)

\* C12: whatever low_name and high_name the caller of whisp_risk chose,
\* every row that add_eudr_risk_col has processed is classified with
\* low_name read as "no" and high_name read as "yes": low when indicator 1
\* holds low_name or indicator 2 or 3 holds high_name, else
\* more_info_needed when indicator 4 holds low_name, else high.  The
\* label then depends on the table and the thresholds only.
C12_LabelNamesDoNotMatter ==
    (wr.fn = "whisp_risk" /\ pc \in {"risk", "done", "raised"}) =>
        \A k \in 1..(r - 1) :
            df.data["EUDR_risk"][k] =
                IF \/ df.data[ind_1_name][k] = wr.low_name
                   \/ df.data[ind_2_name][k] = wr.high_name
                   \/ df.data[ind_3_name][k] = wr.high_name
                THEN "low"
                ELSE IF df.data[ind_4_name][k] = wr.low_name
                     THEN "more_info_needed"
                     ELSE "high"

(***************************************************************************)
(* Properties of build_and_send_project_data and get_ceo_url               *)
(***************************************************************************)
EncodeFailed == steps # <<>> /\ ~steps[1].ok

\* C13: once the call has ended, if the file could not be encoded, or
\* login returned None, or send_project_creation_request returned None,
\* then nothing was raised and build_and_send_project_data returned None.
C13_NoneOnEveryFailedStep ==
    (pc \in {"returned", "done", "raised"}
        /\ (EncodeFailed \/ cookie = PyNone \/ response = PyNone)) =>
        (exc = "none" /\ ret = PyNone)

StepOrder == <<"encode", "login", "create", "publish">>

\* C14: the steps attempted so far are an initial part of encode, login,
\* create, publish, each one attempted only after all earlier ones
\* succeeded: login only for a .shp/.zip path, create only with the cookie
\* login returned, publish only with the projectId of the creation answer
\* and that cookie.
C14_StepOrder ==
    /\ Len(steps) <= Len(StepOrder)
    /\ \A k \in 1..Len(steps) :
          /\ steps[k].step = StepOrder[k]
          /\ k < Len(steps) => steps[k].ok
          /\ k = 2 => file_path.suffix \in {".shp", ".zip"}
          /\ k = 3 => (cookie.t = "str" /\ steps[k].args[2] = cookie)
          /\ k = 4 => /\ response # PyNone
                      /\ "projectId" \in DOMAIN response
                      /\ cookie.t = "str"
                      /\ steps[k].args = <<PyInt(response.projectId), cookie>>

\* a complete run: project 101 was created and published with the cookie
\* of the login, and get_ceo_url has returned
C14_Witness ==
    /\ pc = "done"
    /\ Len(steps) = 4
    /\ steps[4].args = <<PyInt(101), PyStr("ring-session=s1")>>
    /\ ret = PyInt(101)
    /\ url = PyStr(<<"https://app.collect.earth/collection?projectId=", "101">>)

====
